---- MODULE Spec2Model ----
(***************************************************************************)
(* A model of the OpenStack provider services of cloudbridge               *)
(* (src/cloudbridge/cloud/providers/openstack/services.py).                *)
(*                                                                         *)
(* The backend clients (nova, cinder, swift, keystone) are external: each  *)
(* is modelled as a collection of records plus the calls the services make *)
(* on it.  Every service method is an operator that maps the backend state *)
(* and the arguments to the value returned (or the exception raised), the  *)
(* backend calls issued and the new backend state.                         *)
(***************************************************************************)
EXTENDS Naturals, Sequences, FiniteSets, TLC

VARIABLES
    keypairs,     \* nova key pairs: the set of their names
    volumes,      \* cinder volumes: the set of their ids
    snapshots,    \* cinder volume snapshots: the set of their ids
    buckets,      \* swift containers: the set of their names
    instances,    \* nova servers: the set of their ids
    secgroups,    \* nova security groups, in backend list order: <<[id, name]>>
    catalog,      \* keystone service catalog: a sequence of services
    launch,       \* the launch configuration handed to the composer
    provider,     \* the provider object: attribute name -> value
    op,           \* the last service operation and its arguments
    ret,          \* what it returned, or the exception it raised
    calls         \* the backend calls it issued, in order

vars == <<keypairs, volumes, snapshots, buckets, instances, secgroups,
          catalog, launch, provider, op, ret, calls>>

(***************************************************************************)
(* Bounds of the model.                                                    *)
(***************************************************************************)
MaxResources == 2    \* resources held by the block/object/compute backends
MaxGroups == 2       \* security groups held by the backend
MaxDevices == 2      \* block devices of a launch configuration
MaxServices == 2     \* services of the catalog
MaxEndpoints == 2    \* endpoints of one service

(***************************************************************************)
(* Python values.  A value is tagged with its class; a wrapped entity      *)
(* carries the id (and name) it reads through from the raw record.         *)
(***************************************************************************)
None == [tag |-> "None"]
Str(s) == [tag |-> "str", val |-> s]
Bool(b) == [tag |-> "bool", val |-> b]
Int(n) == [tag |-> "int", val |-> n]
List(s) == [tag |-> "list", val |-> s]
Raise(e) == [tag |-> "Raise", exc |-> e]
Wrap(cls, id) == [tag |-> cls, id |-> id]
WrapNamed(cls, id, name) == [tag |-> cls, id |-> id, name |-> name]

IsRaise(v) == v.tag = "Raise"

\* The classes of the resource model and the interface each implements.
Subclasses(cls) ==
    CASE cls = "PlacementZone" -> {"OpenStackPlacementZone"}
      [] cls = "Snapshot" -> {"OpenStackSnapshot"}
      [] cls = "Volume" -> {"OpenStackVolume"}
      [] cls = "MachineImage" -> {"OpenStackMachineImage"}
      [] cls = "InstanceType" -> {"OpenStackInstanceType"}
      [] cls = "KeyPair" -> {"OpenStackKeyPair"}
      [] cls = "SecurityGroup" -> {"OpenStackSecurityGroup"}
      [] OTHER -> {cls}

isinstance(v, cls) == v.tag \in Subclasses(cls)

EntityTags ==
    {"OpenStackPlacementZone", "OpenStackSnapshot", "OpenStackVolume",
     "OpenStackMachineImage", "OpenStackInstanceType", "OpenStackKeyPair",
     "OpenStackSecurityGroup", "OpenStackInstance", "OpenStackBucket",
     "OpenStackRegion"}

IsEntity(v) == v.tag \in EntityTags

\* Python truthiness of the values the services test.
Truthy(v) ==
    CASE v.tag = "None" -> FALSE
      [] v.tag = "str" -> v.val # ""
      [] v.tag = "int" -> v.val # 0
      [] v.tag = "list" -> v.val # <<>>
      [] v.tag = "bool" -> v.val
      [] OTHER -> TRUE

\* What a backend client can put on the wire: a bare identifier or nothing.
IsBare(v) == v.tag \in {"None", "str"}

Call(api, args) == [api |-> api, args |-> args]

(***************************************************************************)
(* Identifier pools.                                                       *)
(***************************************************************************)
VolIds == {"v1", "v2"}
SnapIds == {"s1", "s2"}
InstIds == {"n1", "n2"}
ImageIds == {"i1"}
KeyNames == {"k1", "k2"}
ZoneIds == {"z1"}
NetIds == {"net1", "net2"}
Unknown == "zz"
\* The instance-type catalog: flavors, whose names are not their ids.
Flavors == {[id |-> "f1", name |-> "m1.small"]}
\* Bucket names are strings, as sequences of characters (1 < 2 in the byte
\* order swift sorts by): "a", "aa", "ab", "b".
BucketNames == {<<1>>, <<1, 1>>, <<1, 2>>, <<2>>}

(***************************************************************************)
(* Resource wrappers (resources.py): read-through views of a raw record.   *)
(***************************************************************************)
OpenStackVolume(rec) == Wrap("OpenStackVolume", rec.id)
OpenStackSnapshot(rec) == Wrap("OpenStackSnapshot", rec.id)
OpenStackMachineImage(rec) == Wrap("OpenStackMachineImage", rec.id)
OpenStackInstance(rec) == Wrap("OpenStackInstance", rec.id)
OpenStackKeyPair(rec) == WrapNamed("OpenStackKeyPair", rec.name, rec.name)
OpenStackBucket(rec) == WrapNamed("OpenStackBucket", rec.name, rec.name)
OpenStackRegion(region) == Wrap("OpenStackRegion", region)

(***************************************************************************)
(* The block-storage client (cinder).  A get of an id the backend does not *)
(* hold raises cinder's NotFound.                                          *)
(***************************************************************************)
cinder_get(held, id) ==
    IF id.tag = "str" /\ id.val \in held
    THEN [tag |-> "record", id |-> id.val]
    ELSE Raise("CinderNotFound")

\* volumes.create(size, name, description, availability_zone, snapshot_id):
\* the request body holds bare identifiers; anything else cannot be encoded.
cinder_volumes_create(new, zone_id, snapshot_id) ==
    IF IsBare(zone_id) /\ IsBare(snapshot_id)
    THEN [tag |-> "record", id |-> new]
    ELSE Raise("TypeError")

\* volume_snapshots.create(volume_id, name, description)
cinder_snapshots_create(vols, new, volume_id) ==
    IF ~IsBare(volume_id) THEN Raise("TypeError")
    ELSE IF volume_id.tag = "str" /\ volume_id.val \in vols
    THEN [tag |-> "record", id |-> new]
    ELSE Raise("CinderNotFound")

(***************************************************************************)
(* OpenStackVolumeService                                                  *)
(***************************************************************************)
VolumeService_get(vols, volume_id) ==
    LET r == cinder_get(vols, volume_id) IN
    [ret |-> IF IsRaise(r)
             THEN IF r.exc = "CinderNotFound" THEN None ELSE r
             ELSE OpenStackVolume(r),
     calls |-> <<Call("cinder.volumes.get", <<volume_id>>)>>]

VolumeService_find(name) ==
    [ret |-> Raise("NotImplementedError"), calls |-> <<>>]

\* zone.id / snapshot.id: an attribute a bare string does not have.
Attr_id(v) == IF IsEntity(v) THEN Str(v.id) ELSE Raise("AttributeError")

VolumeService_zone_id(zone) ==
    IF isinstance(zone, "PlacementZone") THEN Attr_id(zone) ELSE zone

VolumeService_snapshot_id(zone, snapshot) ==
    IF isinstance(zone, "OpenStackSnapshot") /\ Truthy(snapshot)
    THEN Attr_id(snapshot)
    ELSE snapshot

VolumeService_create(vols, new, zone, snapshot) ==
    LET zone_id == VolumeService_zone_id(zone)
        snapshot_id == VolumeService_snapshot_id(zone, snapshot)
        r == cinder_volumes_create(new, zone_id, snapshot_id)
        call == Call("cinder.volumes.create", <<zone_id, snapshot_id>>)
    IN  IF IsRaise(snapshot_id)
        THEN [ret |-> snapshot_id, calls |-> <<>>, volumes |-> vols]
        ELSE IF IsRaise(r)
        THEN [ret |-> r, calls |-> <<call>>, volumes |-> vols]
        ELSE [ret |-> OpenStackVolume(r), calls |-> <<call>>,
              volumes |-> vols \cup {r.id}]

(***************************************************************************)
(* OpenStackSnapshotService                                                *)
(***************************************************************************)
\* A get that catches the compute client's NotFound, not cinder's.
SnapshotService_get_CatchesNova(snaps, snapshot_id) ==
    LET r == cinder_get(snaps, snapshot_id) IN
    [ret |-> IF IsRaise(r)
             THEN IF r.exc = "NovaNotFound" THEN None ELSE r
             ELSE OpenStackSnapshot(r),
     calls |-> <<Call("cinder.volume_snapshots.get", <<snapshot_id>>)>>]

SnapshotService_get(snaps, snapshot_id) ==
    LET r == cinder_get(snaps, snapshot_id) IN
    [ret |-> IF IsRaise(r)
             THEN IF r.exc = "CinderNotFound" THEN None ELSE r
             ELSE OpenStackSnapshot(r),
     calls |-> <<Call("cinder.volume_snapshots.get", <<snapshot_id>>)>>]

SnapshotService_find(name) ==
    [ret |-> Raise("NotImplementedError"), calls |-> <<>>]

SnapshotService_volume_id(volume) ==
    IF isinstance(volume, "OpenStackVolume") THEN Attr_id(volume) ELSE volume

SnapshotService_create(vols, snaps, new, volume) ==
    LET volume_id == SnapshotService_volume_id(volume)
        r == cinder_snapshots_create(vols, new, volume_id)
        call == Call("cinder.volume_snapshots.create", <<volume_id>>)
    IN  IF IsRaise(r)
        THEN [ret |-> r, calls |-> <<call>>, snapshots |-> snaps]
        ELSE [ret |-> OpenStackSnapshot(r), calls |-> <<call>>,
              snapshots |-> snaps \cup {r.id}]

(***************************************************************************)
(* The compute client (nova).  A get of an id the backend does not hold    *)
(* raises nova's NotFound, a different class from cinder's.                *)
(***************************************************************************)
nova_get(held, id) ==
    IF id.tag = "str" /\ id.val \in held
    THEN [tag |-> "record", id |-> id.val]
    ELSE Raise("NovaNotFound")

\* keypairs.find(name=name): the one key pair of that name, or NotFound.
nova_keypairs_find(kps, name) ==
    IF name.tag = "str" /\ name.val \in kps
    THEN [tag |-> "record", name |-> name.val]
    ELSE Raise("NovaNotFound")

\* keypairs.create(name): a name already taken is a conflict.
nova_keypairs_create(kps, name) ==
    IF name.val \in kps
    THEN Raise("Conflict")
    ELSE [tag |-> "record", name |-> name.val]

\* servers.create(name, image, flavor, ...): the image must exist.
nova_servers_create(new, image_id) ==
    IF image_id.tag = "str" /\ image_id.val \in ImageIds
    THEN [tag |-> "record", id |-> new]
    ELSE Raise("BadRequest")

(***************************************************************************)
(* OpenStackKeyPairService                                                 *)
(***************************************************************************)
KeyPairService_find(kps, name) ==
    LET r == nova_keypairs_find(kps, name) IN
    [ret |-> IF IsRaise(r)
             THEN IF r.exc = "NovaNotFound" THEN None ELSE r
             ELSE OpenStackKeyPair(r),
     calls |-> <<Call("nova.keypairs.find", <<name>>)>>]

\* A create that does not look the name up first.
KeyPairService_create_NoLookup(kps, name) ==
    LET r == nova_keypairs_create(kps, name)
        call == Call("nova.keypairs.create", <<name>>)
    IN  IF IsRaise(r)
        THEN [ret |-> r, calls |-> <<call>>, keypairs |-> kps]
        ELSE [ret |-> OpenStackKeyPair(r), calls |-> <<call>>,
              keypairs |-> kps \cup {r.name}]

KeyPairService_create(kps, name) ==
    LET f == KeyPairService_find(kps, name)
        r == nova_keypairs_create(kps, name)
        call == Call("nova.keypairs.create", <<name>>)
    IN  IF IsRaise(f.ret) \/ Truthy(f.ret)
        THEN [ret |-> f.ret, calls |-> f.calls, keypairs |-> kps]
        ELSE IF IsRaise(r)
        THEN [ret |-> r, calls |-> Append(f.calls, call), keypairs |-> kps]
        ELSE [ret |-> OpenStackKeyPair(r), calls |-> Append(f.calls, call),
              keypairs |-> kps \cup {r.name}]

(***************************************************************************)
(* OpenStackImageService                                                   *)
(***************************************************************************)
ImageService_get(image_id) ==
    LET r == nova_get(ImageIds, image_id) IN
    [ret |-> IF IsRaise(r)
             THEN IF r.exc = "NovaNotFound" THEN None ELSE r
             ELSE OpenStackMachineImage(r),
     calls |-> <<Call("nova.images.get", <<image_id>>)>>]

\* A find that reports absence.
ImageService_find_ReturnsNone(name) ==
    [ret |-> None, calls |-> <<>>]

ImageService_find(name) ==
    [ret |-> Raise("NotImplementedError"), calls |-> <<>>]

(***************************************************************************)
(* The object-storage client (swift).  An account listing is sorted by     *)
(* name and, given a prefix, holds the containers whose names start with   *)
(* it.                                                                     *)
(***************************************************************************)
startswith(name, prefix) ==
    /\ Len(prefix) <= Len(name)
    /\ SubSeq(name, 1, Len(prefix)) = prefix

\* a sorts before b
LexLess(a, b) ==
    \/ Len(a) < Len(b) /\ startswith(b, a)
    \/ \E i \in 1..Len(a) :
          /\ i <= Len(b)
          /\ SubSeq(a, 1, i - 1) = SubSeq(b, 1, i - 1)
          /\ a[i] < b[i]

RECURSIVE SortedListing(_)
SortedListing(names) ==
    IF names = {} THEN <<>>
    ELSE LET first == CHOOSE n \in names :
                          \A m \in names \ {n} : LexLess(n, m)
         IN  <<[name |-> first]>> \o SortedListing(names \ {first})

swift_get_account(bkts, prefix) ==
    SortedListing({n \in bkts : startswith(n, prefix)})

swift_put_container(bkts, name) == bkts \cup {name}

(***************************************************************************)
(* OpenStackObjectStoreService                                             *)
(***************************************************************************)
\* A get that takes the last container of the listing.
ObjectStoreService_get_Last(bkts, bucket_id) ==
    LET container_list == swift_get_account(bkts, bucket_id.val) IN
    [ret |-> IF container_list # <<>>
             THEN OpenStackBucket(container_list[Len(container_list)])
             ELSE None,
     calls |-> <<Call("swift.get_account", <<bucket_id>>)>>]

ObjectStoreService_get(bkts, bucket_id) ==
    LET container_list == swift_get_account(bkts, bucket_id.val) IN
    [ret |-> IF container_list # <<>>
             THEN OpenStackBucket(container_list[1])
             ELSE None,
     calls |-> <<Call("swift.get_account", <<bucket_id>>)>>]

ObjectStoreService_find(name) ==
    [ret |-> Raise("NotImplementedError"), calls |-> <<>>]

ObjectStoreService_create(bkts, name) ==
    LET put == swift_put_container(bkts, name.val)
        g == ObjectStoreService_get(put, name)
    IN  [ret |-> g.ret,
         calls |-> <<Call("swift.put_container", <<name>>)>> \o g.calls,
         buckets |-> put]

(***************************************************************************)
(* The launch configuration composer.  A launch configuration holds an     *)
(* ordered list of block devices and an ordered list of network ids; a     *)
(* mapping entry is a dict, here a function from its keys to their values. *)
(***************************************************************************)
RootDevice == Str("/dev/sda")

\* The source of a volume-backed device: its source_type and, if any, uuid.
BdmSource(device) ==
    IF isinstance(device.source, "Snapshot")
    THEN ("source_type" :> Str("snapshot")) @@ ("uuid" :> Attr_id(device.source))
    ELSE IF isinstance(device.source, "Volume")
    THEN ("source_type" :> Str("volume")) @@ ("uuid" :> Attr_id(device.source))
    ELSE IF isinstance(device.source, "MachineImage")
    THEN ("source_type" :> Str("image")) @@ ("uuid" :> Attr_id(device.source))
    ELSE ("source_type" :> Str("blank"))

\* delete_on_terminate tested for truth, not against None.
BdmDeleteOnTermination_IfTrue(device) ==
    IF Truthy(device.delete_on_terminate)
    THEN ("delete_on_termination" :> device.delete_on_terminate)
    ELSE <<>>

BdmDeleteOnTermination(device) ==
    IF device.delete_on_terminate # None
    THEN ("delete_on_termination" :> device.delete_on_terminate)
    ELSE <<>>

BdmVolumeSize(device) ==
    IF Truthy(device.size)
    THEN ("volume_size" :> device.size)
    ELSE <<>>

\* One pass of the loop body: the dict built for one device.  A later
\* assignment to a key replaces an earlier one.
BdmDict(device) ==
    IF device.is_volume
    THEN BdmVolumeSize(device) @@ BdmDeleteOnTermination(device)
         @@ BdmSource(device)
         @@ (IF Truthy(device.is_root)
             THEN ("device_name" :> RootDevice)
             ELSE <<>>)
         @@ ("destination_type" :> Str("volume"))
         @@ ("device_name" :> None)
    ELSE ("delete_on_termination" :> Bool(TRUE))
         @@ ("source_type" :> Str("blank"))
         @@ ("destination_type" :> Str("local"))
         @@ ("device_name" :> None)

InstanceService_to_block_device_mapping(launch_config) ==
    [i \in 1..Len(launch_config.block_devices) |->
        BdmDict(launch_config.block_devices[i])]

InstanceService_format_nics(launch_config) ==
    [i \in 1..Len(launch_config.network_interfaces) |->
        ("net-id" :> launch_config.network_interfaces[i])]

(***************************************************************************)
(* OpenStackInstanceService                                                *)
(***************************************************************************)
InstanceService_get(insts, instance_id) ==
    LET r == nova_get(insts, instance_id) IN
    [ret |-> IF IsRaise(r)
             THEN IF r.exc = "NovaNotFound" THEN None ELSE r
             ELSE OpenStackInstance(r),
     calls |-> <<Call("nova.servers.get", <<instance_id>>)>>]

InstanceService_find(name) ==
    [ret |-> Raise("NotImplementedError"), calls |-> <<>>]

\* instance_types.find(name=...), then next(): the first flavor of that
\* name, or StopIteration when the catalog holds none.
InstanceTypes_find_next(name) ==
    IF \E f \in Flavors : f.name = name.val
    THEN Wrap("OpenStackInstanceType",
              (CHOOSE f \in Flavors : f.name = name.val).id)
    ELSE Raise("StopIteration")

InstanceService_image_id(image) ==
    IF isinstance(image, "MachineImage") THEN Attr_id(image) ELSE image

InstanceService_instance_size(instance_type) ==
    IF isinstance(instance_type, "InstanceType")
    THEN Attr_id(instance_type)
    ELSE LET f == InstanceTypes_find_next(instance_type)
         IN  IF IsRaise(f) THEN f ELSE Attr_id(f)

InstanceService_zone_id(zone) ==
    IF isinstance(zone, "PlacementZone") THEN Attr_id(zone) ELSE zone

InstanceService_keypair_name(keypair) ==
    IF isinstance(keypair, "KeyPair") THEN Str(keypair.name) ELSE keypair

InstanceService_security_groups_list(security_groups) ==
    IF Truthy(security_groups)
    THEN IF security_groups.tag = "list"
            /\ isinstance(security_groups.val[1], "SecurityGroup")
         THEN List([i \in 1..Len(security_groups.val) |->
                      Str(security_groups.val[i].name)])
         ELSE security_groups
    ELSE None

InstanceService_create(insts, new, image, instance_type, zone, keypair, security_groups, launch_config) ==
    LET image_id == InstanceService_image_id(image)
        instance_size == InstanceService_instance_size(instance_type)
        zone_id == InstanceService_zone_id(zone)
        keypair_name == InstanceService_keypair_name(keypair)
        security_groups_list ==
            InstanceService_security_groups_list(security_groups)
        bdm == IF launch_config # None
               THEN List(InstanceService_to_block_device_mapping(launch_config))
               ELSE None
        nics == IF launch_config # None
                THEN List(InstanceService_format_nics(launch_config))
                ELSE None
        r == nova_servers_create(new, image_id)
        call == Call("nova.servers.create",
                     <<image_id, instance_size, zone_id, keypair_name,
                       security_groups_list, bdm, nics>>)
        lookup == IF isinstance(instance_type, "InstanceType")
                  THEN <<>>
                  ELSE <<Call("nova.flavors.list", <<>>)>>
    IN  IF IsRaise(instance_size)
        THEN [ret |-> instance_size, calls |-> lookup, instances |-> insts]
        ELSE IF IsRaise(r)
        THEN [ret |-> r, calls |-> Append(lookup, call), instances |-> insts]
        ELSE [ret |-> OpenStackInstance(r), calls |-> Append(lookup, call),
              instances |-> insts \cup {r.id}]

(***************************************************************************)
(* OpenStackSecurityGroupService.  The backend keeps its groups in list    *)
(* order; their ids are unique, their names need not be.                   *)
(***************************************************************************)
OpenStackSecurityGroup(sg) == WrapNamed("OpenStackSecurityGroup", sg.id, sg.name)

Range(seq) == {seq[i] : i \in 1..Len(seq)}

nova_security_groups_list(sgs) == sgs

nova_security_groups_create(sgs, new, name) ==
    Append(sgs, [id |-> new, name |-> name.val])

\* security_groups.delete(group): the group of that id leaves the list.
RECURSIVE nova_security_groups_delete(_, _)
nova_security_groups_delete(sgs, id) ==
    IF sgs = <<>> THEN <<>>
    ELSE (IF Head(sgs).id = id THEN <<>> ELSE <<Head(sgs)>>)
         \o nova_security_groups_delete(Tail(sgs), id)

\* The loop with its second test an elif: a group is appended at most once.
RECURSIVE SecurityGroupFilter_Dedup(_, _, _)
SecurityGroupFilter_Dedup(security_groups, group_names, group_ids) ==
    IF security_groups = <<>> THEN <<>>
    ELSE LET sg == Head(security_groups) IN
         (IF sg.name \in Range(group_names) \/ sg.id \in Range(group_ids)
          THEN <<sg>> ELSE <<>>)
         \o SecurityGroupFilter_Dedup(Tail(security_groups), group_names,
                                      group_ids)

\* The loop of get: each group is appended once for its name and once for
\* its id.
RECURSIVE SecurityGroupFilter(_, _, _)
SecurityGroupFilter(security_groups, group_names, group_ids) ==
    IF security_groups = <<>> THEN <<>>
    ELSE LET sg == Head(security_groups) IN
         (IF sg.name \in Range(group_names) THEN <<sg>> ELSE <<>>)
         \o (IF sg.id \in Range(group_ids) THEN <<sg>> ELSE <<>>)
         \o SecurityGroupFilter(Tail(security_groups), group_names, group_ids)

SecurityGroupService_get(sgs, group_names_arg, group_ids_arg) ==
    LET group_names == IF ~Truthy(group_names_arg) THEN <<>>
                       ELSE group_names_arg.val
        group_ids == IF ~Truthy(group_ids_arg) THEN <<>>
                     ELSE group_ids_arg.val
        security_groups == nova_security_groups_list(sgs)
        filtered == SecurityGroupFilter(security_groups, group_names, group_ids)
        chosen == IF group_names # <<>> \/ group_ids # <<>>
                  THEN filtered
                  ELSE security_groups
    IN  [ret |-> List([i \in 1..Len(chosen) |-> OpenStackSecurityGroup(chosen[i])]),
         calls |-> <<Call("nova.security_groups.list", <<>>)>>]

SecurityGroupService_create(sgs, new, name) ==
    LET after == nova_security_groups_create(sgs, new, name) IN
    [ret |-> OpenStackSecurityGroup(after[Len(after)]),
     calls |-> <<Call("nova.security_groups.create", <<name>>)>>,
     secgroups |-> after]

\* OpenStackSecurityGroup.delete (resources.py): deletes the wrapped group.
SecurityGroup_delete(sgs, sg) ==
    [calls |-> <<Call("nova.security_groups.delete", <<Str(sg.id)>>)>>,
     secgroups |-> nova_security_groups_delete(sgs, sg.id)]

\* A delete that reports whether it deleted something.
SecurityGroupService_delete_ReportsDeleted(sgs, group_id) ==
    LET sg == SecurityGroupService_get(sgs, None, List(<<group_id.val>>))
        d == SecurityGroup_delete(sgs, sg.ret.val[1])
    IN  IF Truthy(sg.ret)
        THEN [ret |-> Bool(TRUE), calls |-> sg.calls \o d.calls,
              secgroups |-> d.secgroups]
        ELSE [ret |-> Bool(FALSE), calls |-> sg.calls, secgroups |-> sgs]

\* A delete that looks the group up by name as well as by id.
SecurityGroupService_delete_ByNameOrId(sgs, group_id) ==
    LET sg == SecurityGroupService_get(sgs, List(<<group_id.val>>),
                                       List(<<group_id.val>>))
        d == SecurityGroup_delete(sgs, sg.ret.val[1])
    IN  IF Truthy(sg.ret)
        THEN [ret |-> Bool(TRUE), calls |-> sg.calls \o d.calls,
              secgroups |-> d.secgroups]
        ELSE [ret |-> Bool(TRUE), calls |-> sg.calls, secgroups |-> sgs]

SecurityGroupService_delete(sgs, group_id) ==
    LET sg == SecurityGroupService_get(sgs, None, List(<<group_id.val>>))
        d == SecurityGroup_delete(sgs, sg.ret.val[1])
    IN  IF Truthy(sg.ret)
        THEN [ret |-> Bool(TRUE), calls |-> sg.calls \o d.calls,
              secgroups |-> d.secgroups]
        ELSE [ret |-> Bool(TRUE), calls |-> sg.calls, secgroups |-> sgs]

(***************************************************************************)
(* OpenStackRegionService.  The catalog is a list of services; a service   *)
(* may hold a list of endpoints; an endpoint may name a region in its      *)
(* 'region' or its 'region_id' field (None when the field is missing).     *)
(***************************************************************************)
\* ClientPagedResultList(provider, objects, limit, marker): without a limit
\* the whole list is one page; a marker resumes after the object of that id.
RECURSIVE AfterMarker(_, _)
AfterMarker(objects, marker) ==
    IF objects = <<>> THEN <<>>
    ELSE IF Head(objects).id = marker.val THEN Tail(objects)
    ELSE AfterMarker(Tail(objects), marker)

ClientPagedResultList(objects, limit, marker) ==
    LET from == IF marker = None THEN objects ELSE AfterMarker(objects, marker)
        page == IF limit = None \/ Len(from) <= limit.val THEN from
                ELSE SubSeq(from, 1, limit.val)
    IN  [tag |-> "list", val |-> page, is_truncated |-> Len(page) < Len(from)]

svc_endpoints(svc) ==
    IF "endpoints" \in DOMAIN svc THEN svc.endpoints ELSE <<>>

\* The two fields read in the other order.
endpoint_region_IdFirst(endpoint) ==
    IF Truthy(endpoint.region_id) THEN endpoint.region_id ELSE endpoint.region

endpoint_region(endpoint) ==
    IF Truthy(endpoint.region) THEN endpoint.region ELSE endpoint.region_id

RECURSIVE EndpointRegions(_)
EndpointRegions(endpoints) ==
    IF endpoints = <<>> THEN <<>>
    ELSE <<endpoint_region(Head(endpoints))>> \o EndpointRegions(Tail(endpoints))

RECURSIVE CatalogRegions(_)
CatalogRegions(data) ==
    IF data = <<>> THEN <<>>
    ELSE EndpointRegions(svc_endpoints(Head(data))) \o CatalogRegions(Tail(data))

RECURSIVE NonEmptyRegions(_)
NonEmptyRegions(regions) ==
    IF regions = <<>> THEN <<>>
    ELSE (IF Truthy(Head(regions)) THEN <<Head(regions)>> ELSE <<>>)
         \o NonEmptyRegions(Tail(regions))

RegionService_list(data, limit, marker) ==
    LET regions == NonEmptyRegions(CatalogRegions(data))
        os_regions == [i \in 1..Len(regions) |-> OpenStackRegion(regions[i].val)]
    IN  [ret |-> ClientPagedResultList(os_regions, limit, marker),
         calls |-> <<Call("keystone.service_catalog.get_data", <<>>)>>]

RECURSIVE FirstWithId(_, _)
FirstWithId(objects, id) ==
    IF objects = <<>> THEN None
    ELSE IF Head(objects).id = id.val THEN Head(objects)
    ELSE FirstWithId(Tail(objects), id)

RegionService_get(data, region_id) ==
    LET l == RegionService_list(data, None, None) IN
    [ret |-> FirstWithId(l.ret.val, region_id), calls |-> l.calls]

(***************************************************************************)
(* BaseCloudProvider.  A provider object is the map of its attributes: the *)
(* methods of the class and whatever a subclass sets.  An attribute whose  *)
(* getter raises holds the exception it raises.                            *)
(***************************************************************************)
Method(n) == [tag |-> "method", name |-> n]
Service(n) == [tag |-> "service", name |-> n]

BaseCloudProvider ==
    [n \in {"name", "has_service", "_get_config_value"} |-> Method(n)]

\* The OpenStack provider: the base class and its four service namespaces.
OpenStackCloudProvider ==
    [n \in {"compute", "security", "block_store", "object_store"} |->
        Service(n)] @@ BaseCloudProvider

\* getattr(obj, name): the attribute's value, or what its getter raises, or
\* AttributeError when there is no such attribute.
getattr(obj, name) ==
    IF name \in DOMAIN obj THEN obj[name] ELSE Raise("AttributeError")

\* A probe that only asks whether the attribute can be read.
has_service_HasAttr(self, service_type) ==
    LET v == getattr(self, service_type.val) IN
    [ret |-> IF IsRaise(v)
             THEN (IF v.exc = "AttributeError" THEN Bool(FALSE) ELSE v)
             ELSE Bool(TRUE),
     calls |-> <<>>]

has_service(self, service_type) ==
    LET v == getattr(self, service_type.val) IN
    [ret |-> IF IsRaise(v)
             THEN (IF v.exc = "AttributeError" THEN Bool(FALSE) ELSE v)
             ELSE IF Truthy(v) THEN Bool(TRUE) ELSE Bool(FALSE),
     calls |-> <<>>]

(***************************************************************************)
(* Inputs.                                                                 *)
(***************************************************************************)
SeqsUpTo(S, n) == UNION {[1..k -> S] : k \in 0..n}

IdArgs(ids) == {Str(i) : i \in ids \cup {Unknown}}
FindArgs == {Str("k1"), Str(Unknown)}

ZoneArgs == {Str(z) : z \in ZoneIds}
            \cup {Wrap("OpenStackPlacementZone", z) : z \in ZoneIds}
\* A wrapped snapshot or volume is one the backend holds.
SnapshotArgs(snaps) ==
    {Str("s1")} \cup {Wrap("OpenStackSnapshot", i) : i \in snaps}
VolumeArgs(vols) ==
    {Str(i) : i \in VolIds} \cup {Wrap("OpenStackVolume", i) : i \in vols}
ImageArgs == IdArgs(ImageIds)
             \cup {Wrap("OpenStackMachineImage", i) : i \in ImageIds}
KeyPairArgs == {Str("k1"), WrapNamed("OpenStackKeyPair", "k1", "k1")}
InstanceTypeArgs ==
    {Wrap("OpenStackInstanceType", f.id) : f \in Flavors}
    \cup {Str(f.name) : f \in Flavors} \cup {Str(Unknown)}
SecurityGroupsArgs ==
    {None, List(<<>>), List(<<Str("web")>>),
     List(<<WrapNamed("OpenStackSecurityGroup", "sg1", "web")>>)}

\* A launch configuration as instance creation sees it.
SampleLaunchConfig ==
    [block_devices |->
        <<[is_volume |-> TRUE, is_root |-> Bool(TRUE),
           source |-> Wrap("OpenStackSnapshot", "s1"),
           delete_on_terminate |-> Bool(TRUE), size |-> None]>>,
     network_interfaces |-> <<Str("net1")>>]

\* The arguments of InstanceService.create: every form of each argument
\* with the others bare, and all of them wrapped entities together.
InstanceCreateArgs ==
    {<<i, Str("m1.small"), None, None, None, None>> : i \in ImageArgs}
    \cup {<<Str("i1"), t, None, None, None, None>> : t \in InstanceTypeArgs}
    \cup {<<Str("i1"), Str("m1.small"), z, k, None, None>> :
            z \in ZoneArgs, k \in KeyPairArgs}
    \cup {<<Str("i1"), Str("m1.small"), None, None, g, None>> :
            g \in SecurityGroupsArgs}
    \cup {<<Wrap("OpenStackMachineImage", "i1"),
            Wrap("OpenStackInstanceType", "f1"),
            Wrap("OpenStackPlacementZone", "z1"),
            WrapNamed("OpenStackKeyPair", "k1", "k1"),
            List(<<WrapNamed("OpenStackSecurityGroup", "sg1", "web")>>),
            SampleLaunchConfig>>}

(***************************************************************************)
(* The block store, the object store, compute and key pairs.               *)
(***************************************************************************)
Held(k, v, s, b, i) ==
    Cardinality(k) + Cardinality(v) + Cardinality(s) + Cardinality(b)
    + Cardinality(i)

Done(name, args, r) ==
    /\ op' = [name |-> name, args |-> args]
    /\ ret' = r.ret
    /\ calls' = r.calls

Others == <<secgroups, catalog, launch, provider>>

Init ==
    /\ keypairs = {}
    /\ volumes = {}
    /\ snapshots = {}
    /\ buckets = {}
    /\ instances = {}
    /\ secgroups = <<>>
    /\ catalog = <<>>
    /\ launch = None
    /\ provider = OpenStackCloudProvider
    /\ op = [name |-> "init", args |-> <<>>]
    /\ ret = None
    /\ calls = <<>>

VolumeGet ==
    \E id \in IdArgs(VolIds) :
        /\ Done("VolumeService.get", <<id>>, VolumeService_get(volumes, id))
        /\ UNCHANGED <<keypairs, volumes, snapshots, buckets, instances, Others>>

VolumeFind ==
    \E name \in FindArgs :
        /\ Done("VolumeService.find", <<name>>, VolumeService_find(name))
        /\ UNCHANGED <<keypairs, volumes, snapshots, buckets, instances, Others>>

VolumeCreate ==
    \E new \in VolIds \ volumes,
       zone \in ZoneArgs \cup {Wrap("OpenStackSnapshot", "s1")},
       snapshot \in SnapshotArgs(snapshots) \cup {None} :
        LET r == VolumeService_create(volumes, new, zone, snapshot) IN
        /\ Held(keypairs, r.volumes, snapshots, buckets, instances) <= MaxResources
        /\ Done("VolumeService.create", <<zone, snapshot>>, r)
        /\ volumes' = r.volumes
        /\ UNCHANGED <<keypairs, snapshots, buckets, instances, Others>>

SnapshotGet ==
    \E id \in IdArgs(SnapIds) :
        /\ Done("SnapshotService.get", <<id>>, SnapshotService_get(snapshots, id))
        /\ UNCHANGED <<keypairs, volumes, snapshots, buckets, instances, Others>>

SnapshotFind ==
    \E name \in FindArgs :
        /\ Done("SnapshotService.find", <<name>>, SnapshotService_find(name))
        /\ UNCHANGED <<keypairs, volumes, snapshots, buckets, instances, Others>>

SnapshotCreate ==
    \E new \in SnapIds \ snapshots, volume \in VolumeArgs(volumes) :
        LET r == SnapshotService_create(volumes, snapshots, new, volume) IN
        /\ Held(keypairs, volumes, r.snapshots, buckets, instances) <= MaxResources
        /\ Done("SnapshotService.create", <<volume>>, r)
        /\ snapshots' = r.snapshots
        /\ UNCHANGED <<keypairs, volumes, buckets, instances, Others>>

ImageGet ==
    \E id \in IdArgs(ImageIds) :
        /\ Done("ImageService.get", <<id>>, ImageService_get(id))
        /\ UNCHANGED <<keypairs, volumes, snapshots, buckets, instances, Others>>

ImageFind ==
    \E name \in FindArgs :
        /\ Done("ImageService.find", <<name>>, ImageService_find(name))
        /\ UNCHANGED <<keypairs, volumes, snapshots, buckets, instances, Others>>

BucketGet ==
    \E id \in BucketNames :
        /\ Done("ObjectStoreService.get", <<Str(id)>>,
                ObjectStoreService_get(buckets, Str(id)))
        /\ UNCHANGED <<keypairs, volumes, snapshots, buckets, instances, Others>>

BucketFind ==
    \E name \in {<<1>>, <<2>>} :
        /\ Done("ObjectStoreService.find", <<Str(name)>>,
                ObjectStoreService_find(Str(name)))
        /\ UNCHANGED <<keypairs, volumes, snapshots, buckets, instances, Others>>

BucketCreate ==
    \E name \in BucketNames :
        LET r == ObjectStoreService_create(buckets, Str(name)) IN
        /\ Held(keypairs, volumes, snapshots, r.buckets, instances) <= MaxResources
        /\ Done("ObjectStoreService.create", <<Str(name)>>, r)
        /\ buckets' = r.buckets
        /\ UNCHANGED <<keypairs, volumes, snapshots, instances, Others>>

InstanceGet ==
    \E id \in IdArgs(InstIds) :
        /\ Done("InstanceService.get", <<id>>, InstanceService_get(instances, id))
        /\ UNCHANGED <<keypairs, volumes, snapshots, buckets, instances, Others>>

InstanceFind ==
    \E name \in FindArgs :
        /\ Done("InstanceService.find", <<name>>, InstanceService_find(name))
        /\ UNCHANGED <<keypairs, volumes, snapshots, buckets, instances, Others>>

InstanceCreate ==
    \E new \in InstIds \ instances, a \in InstanceCreateArgs :
        LET r == InstanceService_create(instances, new,
                                        a[1], a[2], a[3], a[4], a[5], a[6]) IN
        /\ Held(keypairs, volumes, snapshots, buckets, r.instances) <= MaxResources
        /\ Done("InstanceService.create", a, r)
        /\ instances' = r.instances
        /\ UNCHANGED <<keypairs, volumes, snapshots, buckets, Others>>

KeyPairFind ==
    \E name \in KeyNames :
        /\ Done("KeyPairService.find", <<Str(name)>>,
                KeyPairService_find(keypairs, Str(name)))
        /\ UNCHANGED <<keypairs, volumes, snapshots, buckets, instances, Others>>

KeyPairCreate ==
    \E name \in KeyNames :
        LET r == KeyPairService_create(keypairs, Str(name)) IN
        /\ Held(r.keypairs, volumes, snapshots, buckets, instances) <= MaxResources
        /\ Done("KeyPairService.create", <<Str(name)>>, r)
        /\ keypairs' = r.keypairs
        /\ UNCHANGED <<volumes, snapshots, buckets, instances, Others>>

Next ==
    \/ VolumeGet \/ VolumeFind \/ VolumeCreate
    \/ SnapshotGet \/ SnapshotFind \/ SnapshotCreate
    \/ ImageGet \/ ImageFind
    \/ BucketGet \/ BucketFind \/ BucketCreate
    \/ InstanceGet \/ InstanceFind \/ InstanceCreate
    \/ KeyPairFind \/ KeyPairCreate

Spec == Init /\ [][Next]_vars

(***************************************************************************)
(* Security groups.                                                        *)
(***************************************************************************)
SGIds == {"sg1", "sg2", "sg3"}
\* A group may be named like another group's id.
SGNames == {"web", "sg1"}

GroupNamesArgs ==
    {None, List(<<>>), List(<<"web">>), List(<<"sg1">>), List(<<"sg1", "web">>)}
GroupIdsArgs ==
    {None, List(<<>>), List(<<"sg1">>), List(<<"sg2">>), List(<<"sg2", "sg1">>),
     List(<<Unknown>>)}

SecurityGroupGet ==
    \E group_names \in GroupNamesArgs, group_ids \in GroupIdsArgs :
        /\ Done("SecurityGroupService.get", <<group_names, group_ids>>,
                SecurityGroupService_get(secgroups, group_names, group_ids))
        /\ UNCHANGED <<keypairs, volumes, snapshots, buckets, instances,
                       secgroups, catalog, launch, provider>>

SecurityGroupCreate ==
    \E new \in SGIds \ {sg.id : sg \in Range(secgroups)}, name \in SGNames :
        LET r == SecurityGroupService_create(secgroups, new, Str(name)) IN
        /\ Len(secgroups) < MaxGroups
        /\ Done("SecurityGroupService.create", <<Str(name)>>, r)
        /\ secgroups' = r.secgroups
        /\ UNCHANGED <<keypairs, volumes, snapshots, buckets, instances,
                       catalog, launch, provider>>

SecurityGroupDelete ==
    \E group_id \in SGIds \cup {"web"} :
        LET r == SecurityGroupService_delete(secgroups, Str(group_id)) IN
        /\ Done("SecurityGroupService.delete", <<Str(group_id)>>, r)
        /\ secgroups' = r.secgroups
        /\ UNCHANGED <<keypairs, volumes, snapshots, buckets, instances,
                       catalog, launch, provider>>

NextSecurity == SecurityGroupGet \/ SecurityGroupCreate \/ SecurityGroupDelete

SpecSecurity == Init /\ [][NextSecurity]_vars

(***************************************************************************)
(* Regions.  The catalog is fixed when the session is established.         *)
(***************************************************************************)
RegionFields == {None, Str(""), Str("RegionOne")}
RegionIdFields == {None, Str(""), Str("RegionTwo")}
Endpoints == [region : RegionFields, region_id : RegionIdFields]

\* The services with k endpoints; one without endpoints may lack the key.
ServicesWith(k) ==
    {[type |-> "compute", endpoints |-> e] : e \in [1..k -> Endpoints]}
    \cup (IF k = 0 THEN {[type |-> "identity"]} ELSE {})

\* The catalogs of at most ns services and ne endpoints in all.
RECURSIVE Catalogs(_, _)
Catalogs(ns, ne) ==
    IF ns = 0 THEN {<<>>}
    ELSE {<<>>} \cup
         UNION {{<<svc>> \o rest : svc \in ServicesWith(k),
                                   rest \in Catalogs(ns - 1, ne - k)} :
                k \in 0..ne}

InitRegion ==
    /\ keypairs = {}
    /\ volumes = {}
    /\ snapshots = {}
    /\ buckets = {}
    /\ instances = {}
    /\ secgroups = <<>>
    /\ catalog \in Catalogs(MaxServices, MaxEndpoints)
    /\ launch = None
    /\ provider = OpenStackCloudProvider
    /\ op = [name |-> "init", args |-> <<>>]
    /\ ret = None
    /\ calls = <<>>

RegionList ==
    \E limit \in {None, Int(1)}, marker \in {None, Str("RegionOne")} :
        /\ Done("RegionService.list", <<limit, marker>>,
                RegionService_list(catalog, limit, marker))
        /\ UNCHANGED <<keypairs, volumes, snapshots, buckets, instances,
                       secgroups, catalog, launch, provider>>

RegionGet ==
    \E id \in {"RegionOne", "RegionTwo", Unknown} :
        /\ Done("RegionService.get", <<Str(id)>>,
                RegionService_get(catalog, Str(id)))
        /\ UNCHANGED <<keypairs, volumes, snapshots, buckets, instances,
                       secgroups, catalog, launch, provider>>

NextRegion == RegionList \/ RegionGet

SpecRegion == InitRegion /\ [][NextRegion]_vars

(***************************************************************************)
(* Launch configurations.                                                  *)
(***************************************************************************)
\* The source of a volume device: a snapshot, a volume, an image or none.
Sources ==
    {None, Wrap("OpenStackSnapshot", "s1"), Wrap("OpenStackVolume", "v1"),
     Wrap("OpenStackMachineImage", "i1")}
Flags == {None, Bool(TRUE), Bool(FALSE)}
Sizes == {None, Int(0), Int(1)}

VolumeDevices ==
    [is_volume : {TRUE}, is_root : {None, Bool(TRUE)}, source : Sources,
     delete_on_terminate : Flags, size : Sizes]

\* A device that is not volume-backed: as add_ephemeral_device builds it,
\* and with each of its other fields set.
LocalDevices ==
    [is_volume : {FALSE}, is_root : {None}, source : {None},
     delete_on_terminate : Flags, size : {None}]
    \cup [is_volume : {FALSE}, is_root : {Bool(TRUE)},
          source : {Wrap("OpenStackSnapshot", "s1")},
          delete_on_terminate : {Bool(FALSE)}, size : {Int(1), None}]

Devices == VolumeDevices \cup LocalDevices

LaunchConfigs ==
    {[block_devices |-> d,
      network_interfaces |-> <<Str("net2"), Str("net1")>>] :
        d \in SeqsUpTo(Devices, MaxDevices)}
    \cup {[block_devices |-> <<>>, network_interfaces |-> <<>>]}

InitLaunch ==
    /\ keypairs = {}
    /\ volumes = {}
    /\ snapshots = {}
    /\ buckets = {}
    /\ instances = {}
    /\ secgroups = <<>>
    /\ catalog = <<>>
    /\ launch \in LaunchConfigs
    /\ provider = OpenStackCloudProvider
    /\ op = [name |-> "init", args |-> <<>>]
    /\ ret = None
    /\ calls = <<>>

ToBlockDeviceMapping ==
    /\ op' = [name |-> "InstanceService._to_block_device_mapping", args |-> <<>>]
    /\ ret' = List(InstanceService_to_block_device_mapping(launch))
    /\ calls' = <<>>
    /\ UNCHANGED <<keypairs, volumes, snapshots, buckets, instances,
                   secgroups, catalog, launch, provider>>

FormatNics ==
    /\ op' = [name |-> "InstanceService._format_nics", args |-> <<>>]
    /\ ret' = List(InstanceService_format_nics(launch))
    /\ calls' = <<>>
    /\ UNCHANGED <<keypairs, volumes, snapshots, buckets, instances,
                   secgroups, catalog, launch, provider>>

NextLaunch == ToBlockDeviceMapping \/ FormatNics

SpecLaunch == InitLaunch /\ [][NextLaunch]_vars

(***************************************************************************)
(* The capability probe.  A provider is any subclass instance: each        *)
(* service attribute is unset, a service, a false value, or a getter that  *)
(* raises.                                                                 *)
(***************************************************************************)
ServiceTypes == {"compute", "security", "object_store"}

AttrValues ==
    {Service("svc"), None, List(<<>>), Raise("AttributeError"),
     Raise("NotImplementedError")}

Providers ==
    UNION {{f @@ BaseCloudProvider : f \in [S -> AttrValues]} :
           S \in SUBSET ServiceTypes}

InitProvider ==
    /\ keypairs = {}
    /\ volumes = {}
    /\ snapshots = {}
    /\ buckets = {}
    /\ instances = {}
    /\ secgroups = <<>>
    /\ catalog = <<>>
    /\ launch = None
    /\ provider \in Providers
    /\ op = [name |-> "init", args |-> <<>>]
    /\ ret = None
    /\ calls = <<>>

HasService ==
    \E service_type \in ServiceTypes \cup {"name", Unknown} :
        /\ Done("BaseCloudProvider.has_service", <<Str(service_type)>>,
                has_service(provider, Str(service_type)))
        /\ UNCHANGED <<keypairs, volumes, snapshots, buckets, instances,
                       secgroups, catalog, launch, provider>>

NextProvider == HasService

SpecProvider == InitProvider /\ [][NextProvider]_vars

(***************************************************************************)
(* Properties of get by id.                                                *)
(***************************************************************************)
GetOps ==
    {"ImageService.get", "VolumeService.get", "SnapshotService.get",
     "InstanceService.get", "ObjectStoreService.get", "RegionService.get"}

\* C1: a get by id returns None or one wrapped entity whose id is the
\* requested id, never an entity of another id.
C1_GetReturnsRequestedIdOrNone ==
    op.name \in GetOps =>
        \/ ret = None
        \/ IsEntity(ret) /\ ret.id = op.args[1].val

\* C2: ImageService.get, VolumeService.get, SnapshotService.get and
\* InstanceService.get of an id the backend does not hold return None: the
\* backend's not-found signal is not raised to the caller.
C2_GetOfAbsentIdReturnsNone ==
    /\ (op.name = "ImageService.get" /\ op.args[1].val \notin ImageIds)
            => ret = None
    /\ (op.name = "VolumeService.get" /\ op.args[1].val \notin volumes)
            => ret = None
    /\ (op.name = "SnapshotService.get" /\ op.args[1].val \notin snapshots)
            => ret = None
    /\ (op.name = "InstanceService.get" /\ op.args[1].val \notin instances)
            => ret = None

\* A snapshot get of an id the backend does not hold, while it holds others.
C2_Witness ==
    /\ op.name = "SnapshotService.get"
    /\ snapshots # {}
    /\ op.args[1].val \notin snapshots
    /\ calls = <<Call("cinder.volume_snapshots.get", op.args)>>
    /\ ret = None

(***************************************************************************)
(* Properties of create.                                                   *)
(***************************************************************************)
CreatedBy(name) ==
    CASE name = "VolumeService.create" -> "OpenStackVolume"
      [] name = "SnapshotService.create" -> "OpenStackSnapshot"
      [] name = "ObjectStoreService.create" -> "OpenStackBucket"
      [] name = "InstanceService.create" -> "OpenStackInstance"
      [] OTHER -> "none"

GetOf(name) ==
    CASE name = "VolumeService.create" -> "VolumeService.get"
      [] name = "SnapshotService.create" -> "SnapshotService.get"
      [] name = "ObjectStoreService.create" -> "ObjectStoreService.get"
      [] name = "InstanceService.create" -> "InstanceService.get"
      [] OTHER -> "none"

\* C4: when a create of a volume, snapshot, bucket or instance returns an
\* entity of id I, a get of I right after it returns a wrapper of id I; and
\* ObjectStoreService.create(name) returns the bucket named name, also when
\* other buckets have that name as a prefix.
C4_GetAfterCreate ==
    /\ [](op.name = "ObjectStoreService.create" =>
            /\ ret.tag = "OpenStackBucket"
            /\ ret.id = op.args[1].val)
    /\ [][(/\ CreatedBy(op.name) # "none"
           /\ ret.tag = CreatedBy(op.name)
           /\ op'.name = GetOf(op.name)
           /\ op'.args = <<Str(ret.id)>>)
          => (ret'.tag = ret.tag /\ ret'.id = ret.id)]_vars

\* A bucket was created whose name is a proper prefix of another bucket's.
C4_Witness ==
    /\ op.name = "ObjectStoreService.create"
    /\ ret.tag = "OpenStackBucket"
    /\ ret.id = op.args[1].val
    /\ \E other \in buckets :
          other # ret.id /\ startswith(other, op.args[1].val)

\* What an argument that names a resource resolves to: the id of a wrapped
\* entity of the expected class (the name, for a key pair), else itself.
ResolvedId(arg, cls) == IF isinstance(arg, cls) THEN Str(arg.id) ELSE arg
ResolvedName(arg, cls) == IF isinstance(arg, cls) THEN Str(arg.name) ELSE arg

BackendCall(api) == CHOOSE c \in Range(calls) : c.api = api
Issued(api) == \E c \in Range(calls) : c.api = api

\* C5: VolumeService.create, SnapshotService.create and
\* InstanceService.create hand the backend a bare identifier for every
\* argument that names a resource: the id (the name, for a key pair) of a
\* wrapped entity, and a bare identifier unchanged.
C5_ArgumentsResolvedToIds ==
    /\ (op.name = "VolumeService.create" /\ Issued("cinder.volumes.create")) =>
          BackendCall("cinder.volumes.create").args =
              <<ResolvedId(op.args[1], "PlacementZone"),
                ResolvedId(op.args[2], "Snapshot")>>
    /\ (op.name = "SnapshotService.create"
        /\ Issued("cinder.volume_snapshots.create")) =>
          BackendCall("cinder.volume_snapshots.create").args =
              <<ResolvedId(op.args[1], "Volume")>>
    /\ (op.name = "InstanceService.create" /\ Issued("nova.servers.create")) =>
          LET sent == BackendCall("nova.servers.create").args IN
          /\ sent[1] = ResolvedId(op.args[1], "MachineImage")
          /\ sent[3] = ResolvedId(op.args[3], "PlacementZone")
          /\ sent[4] = ResolvedName(op.args[4], "KeyPair")

(***************************************************************************)
(* Properties of the key pair service and of find.                         *)
(***************************************************************************)
CreateCalls == {i \in 1..Len(calls) : calls[i].api = "nova.keypairs.create"}

\* C9: KeyPairService.create(name) returns the key pair of that name: when
\* the backend already holds it, the existing one and no backend create is
\* issued; otherwise exactly one backend create is issued and the backend
\* then holds it.  A second create of the same name right after the first
\* leaves the backend as the first left it.
C9_CreateReturnsExistingKeyPair ==
    /\ [](op.name = "KeyPairService.create" =>
            /\ ret = WrapNamed("OpenStackKeyPair", op.args[1].val, op.args[1].val)
            /\ op.args[1].val \in keypairs
            /\ Cardinality(CreateCalls) <= 1)
    /\ [][op'.name = "KeyPairService.create" =>
            LET name == op'.args[1].val
                created == {i \in 1..Len(calls') :
                               calls'[i].api = "nova.keypairs.create"}
            IN  IF name \in keypairs
                THEN created = {} /\ keypairs' = keypairs
                ELSE /\ Cardinality(created) = 1
                     /\ \A i \in created : calls'[i].args = op'.args
                     /\ keypairs' = keypairs \cup {name}]_vars
    /\ [][(/\ op.name = "KeyPairService.create"
           /\ op'.name = "KeyPairService.create"
           /\ op'.args = op.args)
          => keypairs' = keypairs]_vars

\* A create of a name the backend already held, beside another key pair:
\* the lookup was the only backend call.
C9_Witness ==
    /\ op.name = "KeyPairService.create"
    /\ Cardinality(keypairs) = 2
    /\ CreateCalls = {}
    /\ calls = <<Call("nova.keypairs.find", op.args)>>
    /\ ret.tag = "OpenStackKeyPair"

UnsupportedFinds ==
    {"ImageService.find", "VolumeService.find", "SnapshotService.find",
     "ObjectStoreService.find", "InstanceService.find"}

\* C10: find of the image, volume, snapshot, object store and instance
\* services raises NotImplementedError whatever the argument and the
\* backend hold, and calls no backend; only KeyPairService.find returns
\* None, for a name the backend does not hold.
C10_FindNotImplemented ==
    /\ op.name \in UnsupportedFinds =>
          ret = Raise("NotImplementedError") /\ calls = <<>>
    /\ op.name = "KeyPairService.find" =>
          ret = IF op.args[1].val \in keypairs
                THEN WrapNamed("OpenStackKeyPair", op.args[1].val,
                               op.args[1].val)
                ELSE None
    /\ (op.name \in UnsupportedFinds \cup {"KeyPairService.find"}
        /\ ret = None) => op.name = "KeyPairService.find"

\* A find on the image service while the backends hold resources.
C10_Witness ==
    /\ op.name = "ImageService.find"
    /\ ret = Raise("NotImplementedError")
    /\ calls = <<>>
    /\ keypairs # {}
    /\ buckets # {}

(***************************************************************************)
(* Properties of the security group service.                               *)
(***************************************************************************)
GroupIdsHeld == {sg.id : sg \in Range(secgroups)}

\* C3: SecurityGroupService.delete returns True whether or not a group of
\* that id existed, leaves no group of that id, and a second delete of the
\* same id right after the first returns True and leaves the backend as the
\* first left it.
C3_DeleteIsIdempotent ==
    /\ [](op.name = "SecurityGroupService.delete" =>
            /\ ret = Bool(TRUE)
            /\ op.args[1].val \notin GroupIdsHeld)
    /\ [][(/\ op.name = "SecurityGroupService.delete"
           /\ op'.name = "SecurityGroupService.delete"
           /\ op'.args = op.args)
          => (ret' = Bool(TRUE) /\ secgroups' = secgroups)]_vars

\* A delete that removed a group and left another one in place.
C3_Witness ==
    /\ op.name = "SecurityGroupService.delete"
    /\ Len(calls) = 2
    /\ calls[2] = Call("nova.security_groups.delete", op.args)
    /\ secgroups # <<>>
    /\ ret = Bool(TRUE)

\* The effective filters of a get: None and the empty list are no filter.
FilterOf(arg) == IF arg.tag = "list" THEN Range(arg.val) ELSE {}

Occurrences(items, id) ==
    Cardinality({i \in 1..Len(items) : items[i].id = id})

PositionOf(id) == CHOOSE i \in 1..Len(secgroups) : secgroups[i].id = id

\* C7: SecurityGroupService.get lists the backend once and returns, in
\* backend order, a wrapper of a group once if its name is in group_names
\* and once more if its id is in group_ids; with no filter it returns every
\* group exactly once, and with a filter that matches nothing the empty list.
C7_GetFiltersByNameOrId ==
    op.name = "SecurityGroupService.get" =>
        LET names == FilterOf(op.args[1])
            ids == FilterOf(op.args[2])
            items == ret.val
        IN  /\ ret.tag = "list"
            /\ calls = <<Call("nova.security_groups.list", <<>>)>>
            /\ \A i \in 1..Len(items) :
                  \E j \in 1..Len(secgroups) :
                      items[i] = WrapNamed("OpenStackSecurityGroup",
                                           secgroups[j].id, secgroups[j].name)
            /\ \A i, j \in 1..Len(items) :
                  i < j => PositionOf(items[i].id) <= PositionOf(items[j].id)
            /\ \A j \in 1..Len(secgroups) :
                  Occurrences(items, secgroups[j].id) =
                      IF names = {} /\ ids = {} THEN 1
                      ELSE (IF secgroups[j].name \in names THEN 1 ELSE 0)
                           + (IF secgroups[j].id \in ids THEN 1 ELSE 0)

\* A get with both filters: one group matches both and is returned twice,
\* the other matches neither and is left out.
C7_Witness ==
    /\ op.name = "SecurityGroupService.get"
    /\ Len(secgroups) = 2
    /\ Len(ret.val) = 2
    /\ ret.val[1] = ret.val[2]
    /\ op.args[1].tag = "list"
    /\ op.args[2].tag = "list"

(***************************************************************************)
(* Properties of the launch configuration composer.                        *)
(***************************************************************************)
HasKey(dict, key) == key \in DOMAIN dict

SourceTypeOf(source) ==
    IF source.tag = "OpenStackSnapshot" THEN "snapshot"
    ELSE IF source.tag = "OpenStackVolume" THEN "volume"
    ELSE IF source.tag = "OpenStackMachineImage" THEN "image"
    ELSE "blank"

\* The entry the decision tree gives a device; SizeGiven says which sizes
\* count as given.
EntryMatches(entry, device, SizeGiven(_)) ==
    IF device.is_volume
    THEN /\ DOMAIN entry \subseteq
               {"device_name", "destination_type", "source_type", "uuid",
                "delete_on_termination", "volume_size"}
         /\ entry["destination_type"] = Str("volume")
         /\ entry["device_name"] =
               IF device.is_root = Bool(TRUE) THEN Str("/dev/sda") ELSE None
         /\ entry["source_type"] = Str(SourceTypeOf(device.source))
         /\ HasKey(entry, "uuid") <=> SourceTypeOf(device.source) # "blank"
         /\ HasKey(entry, "uuid") => entry["uuid"] = Str(device.source.id)
         /\ HasKey(entry, "delete_on_termination")
               <=> device.delete_on_terminate # None
         /\ HasKey(entry, "delete_on_termination")
               => entry["delete_on_termination"] = device.delete_on_terminate
         /\ HasKey(entry, "volume_size") <=> SizeGiven(device.size)
         /\ HasKey(entry, "volume_size") => entry["volume_size"] = device.size
    ELSE /\ DOMAIN entry =
               {"device_name", "destination_type", "source_type",
                "delete_on_termination"}
         /\ entry["destination_type"] = Str("local")
         /\ entry["source_type"] = Str("blank")
         /\ entry["delete_on_termination"] = Bool(TRUE)
         /\ entry["device_name"] = None

MappingMatches(SizeGiven(_)) ==
    op.name = "InstanceService._to_block_device_mapping" =>
        /\ ret.tag = "list"
        /\ Len(ret.val) = Len(launch.block_devices)
        /\ \A i \in 1..Len(ret.val) :
              EntryMatches(ret.val[i], launch.block_devices[i], SizeGiven)

AnySize(size) == size # None
NonZeroSize(size) == size # None /\ size # Int(0)

\* C6 as stated: one entry per block device, in order, each as the decision
\* tree gives it, volume_size present iff the device has a size.
C6_MappingFollowsDecisionTree == MappingMatches(AnySize)

\* C6 as amended: volume_size is present iff the device has a size other
\* than 0; a size of 0 is treated as no size.
C6_MappingFollowsDecisionTree_NonZeroSize == MappingMatches(NonZeroSize)

\* Two devices mapped: a root volume from a snapshot with an explicit
\* delete_on_terminate of false and a size, then a local device whose
\* delete_on_terminate of false is overridden.
C6_Witness ==
    /\ op.name = "InstanceService._to_block_device_mapping"
    /\ Len(launch.block_devices) = 2
    /\ launch.block_devices[1] =
          [is_volume |-> TRUE, is_root |-> Bool(TRUE),
           source |-> Wrap("OpenStackSnapshot", "s1"),
           delete_on_terminate |-> Bool(FALSE), size |-> Int(1)]
    /\ ~launch.block_devices[2].is_volume
    /\ launch.block_devices[2].delete_on_terminate = Bool(FALSE)
    /\ ret.val[1]["uuid"] = Str("s1")
    /\ ret.val[1]["delete_on_termination"] = Bool(FALSE)
    /\ ret.val[2]["delete_on_termination"] = Bool(TRUE)

(***************************************************************************)
(* Properties of the region service.                                       *)
(***************************************************************************)
\* The places of the catalog's endpoints, and the region each names.
Places ==
    {<<i, j>> : i \in 1..Len(catalog), j \in 1..MaxEndpoints + 1} \cap
    {p \in (1..Len(catalog)) \X (1..MaxEndpoints + 1) :
        /\ "endpoints" \in DOMAIN catalog[p[1]]
        /\ p[2] <= Len(catalog[p[1]].endpoints)}

NamedAt(p) ==
    LET e == catalog[p[1]].endpoints[p[2]] IN
    IF e.region # None /\ e.region # Str("") THEN e.region ELSE e.region_id

NamingPlaces == {p \in Places : NamedAt(p) # None /\ NamedAt(p) # Str("")}

Before(p, q) == p[1] < q[1] \/ (p[1] = q[1] /\ p[2] <= q[2])

RankOf(p) == Cardinality({q \in NamingPlaces : Before(q, p)})

\* C8: RegionService.list without limit and marker returns, in catalog
\* order, one Region for every endpoint that names a region, its id the
\* endpoint's region if that is non-empty and else its region_id; endpoints
\* that name none yield nothing, and equal ids are not merged.
C8_ListWalksCatalog ==
    (op.name = "RegionService.list" /\ op.args = <<None, None>>) =>
        /\ ret.tag = "list"
        /\ Len(ret.val) = Cardinality(NamingPlaces)
        /\ \A p \in NamingPlaces :
              ret.val[RankOf(p)] = Wrap("OpenStackRegion", NamedAt(p).val)

\* Two services, each with one endpoint of region RegionOne, listed as two
\* Regions of id RegionOne.
C8_Witness ==
    /\ op.name = "RegionService.list"
    /\ op.args = <<None, None>>
    /\ Len(catalog) = 2
    /\ \A i \in 1..2 :
          /\ "endpoints" \in DOMAIN catalog[i]
          /\ Len(catalog[i].endpoints) = 1
          /\ catalog[i].endpoints[1].region = Str("RegionOne")
    /\ ret.val = <<Wrap("OpenStackRegion", "RegionOne"),
                   Wrap("OpenStackRegion", "RegionOne")>>

(***************************************************************************)
(* Properties of the capability probe.                                     *)
(***************************************************************************)
\* The attribute the probe names can be read and its value is true.
Usable(self, name) ==
    /\ name \in DOMAIN self
    /\ ~IsRaise(self[name])
    /\ Truthy(self[name])

\* C11: has_service(service_type) returns True exactly when the provider
\* has an attribute of that name that resolves to a true value; when it has
\* no such attribute it returns False rather than raising; and the call
\* leaves the provider and the backends as they were.
C11_HasServiceProbesAttribute ==
    /\ [](op.name = "BaseCloudProvider.has_service" =>
            /\ (ret = Bool(TRUE)) <=> Usable(provider, op.args[1].val)
            /\ op.args[1].val \notin DOMAIN provider => ret = Bool(FALSE)
            /\ calls = <<>>)
    /\ [][op'.name = "BaseCloudProvider.has_service" =>
            /\ provider' = provider
            /\ UNCHANGED <<keypairs, volumes, snapshots, buckets, instances,
                           secgroups, catalog, launch>>]_vars

\* A probe for an attribute the provider lacks, answered False, on a
\* provider that holds another service attribute with a false value.
C11_Witness ==
    /\ op.name = "BaseCloudProvider.has_service"
    /\ op.args[1].val \notin DOMAIN provider
    /\ ret = Bool(FALSE)
    /\ \E n \in DOMAIN provider : provider[n] = None

(***************************************************************************)
(* The frame of a security group delete.                                   *)
(***************************************************************************)
\* The groups of other ids, in backend order.
OtherGroups(sgs, id) == SelectSeq(sgs, LAMBDA sg : sg.id # id)

DeleteCalls(cs) ==
    {i \in 1..Len(cs) : cs[i].api = "nova.security_groups.delete"}

\* C12: SecurityGroupService.delete(group_id) issues at most one backend
\* delete, and only for a held group whose id is group_id; it issues none
\* when no group has that id; and every group of another id, one named
\* like group_id included, is in the backend afterwards as it was before.
C12_DeleteAffectsOnlyNamedGroup ==
    [][op'.name = "SecurityGroupService.delete" =>
        LET group_id == op'.args[1].val
            deletes == DeleteCalls(calls')
        IN  /\ Cardinality(deletes) <= 1
            /\ \A i \in deletes :
                  /\ calls'[i].args = <<Str(group_id)>>
                  /\ group_id \in GroupIdsHeld
            /\ group_id \notin GroupIdsHeld => deletes = {}
            /\ OtherGroups(secgroups', group_id)
                  = OtherGroups(secgroups, group_id)]_vars

\* The group of id sg1 was deleted and a group named sg1, of another id,
\* is still held.
C12_Witness ==
    /\ op.name = "SecurityGroupService.delete"
    /\ op.args = <<Str("sg1")>>
    /\ DeleteCalls(calls) # {}
    /\ \E sg \in Range(secgroups) : sg.name = "sg1" /\ sg.id # "sg1"

====
